---- MODULE Spec2Model ----
(***************************************************************************)
(* Model of blk-reader: the chain assembler (src/src/chain.rs) and the     *)
(* reader driver (src/src/block.rs).                                       *)
(*                                                                         *)
(* Spec is the reader over records that come in any order, the bytes of    *)
(* the files left aside and no file callback set; SpecFile is the reader   *)
(* over the bytes of the files, with a file callback; SpecAlone is the     *)
(* assembler under any sequence of insert and pop_head.                    *)
(*                                                                         *)
(* A block is its id (the hash of its header); the parent id is a function *)
(* of the id, as the header holds prev_blockhash.  A node of the forest is *)
(* a handle <<id, copy>>: every attach allocates a fresh node, also when   *)
(* the same block is delivered again.                                      *)
(***************************************************************************)
EXTENDS Naturals, Integers, Sequences, FiniteSets, TLC

\* ---- bounds of the input -------------------------------------------------
MainLen == 11      \* blocks 1..MainLen form the main chain
ForkLen == 1       \* blocks MainLen+1..MainLen+ForkLen form a side chain
MaxDup == 1        \* records that deliver an already delivered block again
MaxFiles == 2      \* blk files in the directory
MaxPending == 2    \* orphans the input lets wait at once
MaxBlocksCap == 1  \* largest max_blocks option tried
MaxOrphansCap == 2 \* largest max_orphans option tried
ChainBlocks == 4   \* main-chain blocks handed to the assembler used alone
MaxChainDup == 2   \* repeated blocks handed to the assembler used alone
MaxAhead == 1      \* records a block may come ahead of its turn in a blk file

\* ---- program constants ---------------------------------------------------
ZERO == 0
CONFIRMATION_DEPTH == 10
NoBlock == -1
NoNode == <<0, 0>>
None == <<>>
HeaderLen == 80
FrameLen == 8

Some(x) == <<x>>

MainBlocks == 1..MainLen
ForkBlocks == (MainLen + 1)..(MainLen + ForkLen)
Blocks == MainBlocks \cup ForkBlocks

\* the side chain forks off block 1: its first block is a sibling of block 2
get_block_prev_id(b) ==
    IF b = MainLen + 1 THEN 1 ELSE b - 1

get_block_id(b) == b

VARIABLES head, tree, nodes, orphans, made,
          height, max_blocks, max_orphans, stop_flag,
          pc, cur, arg, nfiles, delivered, ndup,
          emitted, popped, ret, pruned, lost, why,
          result, file_cb, offset, local_height, time, cbs, consumed, located,
          late

chainVars == <<head, tree, nodes, orphans, made>>
optVars == <<max_blocks, max_orphans>>
\* read_blocs seen at the level of the bytes of a file: the file callback,
\* the locals offset, height and time, the calls of file_cb made so far, the
\* files read to their end and the last records built from the file being read
fileVars == <<file_cb, offset, local_height, time, cbs, consumed, located>>
vars == <<head, tree, nodes, orphans, made,
          height, max_blocks, max_orphans, stop_flag,
          pc, cur, arg, nfiles, delivered, ndup,
          emitted, popped, ret, pruned, lost, why,
          result, file_cb, offset, local_height, time, cbs, consumed, located,
          late>>

\* ---- maps (BTreeMap) -----------------------------------------------------
EmptyMap == [x \in {} |-> 0]
\* a slip: an entry already there is kept (entry().or_insert)
MapPutIfAbsent(m, k, v) ==
    [x \in (DOMAIN m) \cup {k} |-> IF x \in DOMAIN m THEN m[x] ELSE v]

MapPut(m, k, v) == [x \in (DOMAIN m) \cup {k} |-> IF x = k THEN v ELSE m[x]]
\* a slip: the entry is left in the map
MapRemoveKept(m, k) == m

MapRemove(m, k) == [x \in (DOMAIN m) \ {k} |-> m[x]]
\* a slip: the loop over the pruned nodes removes nothing
MapRemoveNone(m, ks) == m

MapRemoveAll(m, ks) == [x \in (DOMAIN m) \ ks |-> m[x]]
Range(s) == {s[i] : i \in DOMAIN s}

\* ---- Node ----------------------------------------------------------------
NewNode(b, p) == [block |-> b, prev |-> p, next |-> <<>>]

add_next(t, parent, node) ==
    [t EXCEPT ![parent].next = Append(@, node)]

\* a slip: the running maximum is not compared with
DeeperThanNone(d, max_depth) == d > 0

\* a slip: a later child of the same depth takes over
DeeperOrEqual(d, max_depth) == d >= max_depth

Deeper(d, max_depth) == d > max_depth

\* a slip: of several children only the first is followed
RECURSIVE depth_first_child(_, _)
depth_first_child(t, node) ==
    LET nexts == t[node].next
    IN IF Len(nexts) = 0 THEN 1 ELSE 1 + depth_first_child(t, nexts[1])

RECURSIVE depth(_, _)
RECURSIVE depth_loop(_, _, _, _)
depth_loop(t, nexts, i, max_depth) ==
    IF i > Len(nexts) THEN max_depth
    ELSE LET d == depth(t, nexts[i])
         IN depth_loop(t, nexts, i + 1, IF d > max_depth THEN d ELSE max_depth)

depth(t, node) ==
    LET nexts == t[node].next
    IN IF Len(nexts) = 0 THEN 1
       ELSE IF Len(nexts) = 1 THEN 1 + depth(t, nexts[1])
       ELSE 1 + depth_loop(t, nexts, 1, 0)

\* a slip: the node is put before the nodes on its left, not after them
RECURSIVE extract_left_tail_first(_, _)
extract_left_tail_first(t, node) ==
    IF t[node].prev = NoNode THEN <<node>>
    ELSE <<node>> \o extract_left_tail_first(t, t[node].prev)

RECURSIVE extract_left(_, _)
extract_left(t, node) ==
    IF t[node].prev = NoNode THEN <<node>>
    ELSE Append(extract_left(t, t[node].prev), node)

RECURSIVE extract_right(_, _)
RECURSIVE extract_right_loop(_, _, _, _)
extract_right_loop(t, nexts, i, all_nodes) ==
    IF i > Len(nexts) THEN all_nodes
    ELSE extract_right_loop(t, nexts, i + 1, all_nodes \o extract_right(t, nexts[i]))

extract_right(t, node) ==
    LET nexts == t[node].next
    IN IF Len(nexts) = 0 THEN <<node>>
       ELSE IF Len(nexts) = 1 THEN Append(extract_right(t, nexts[1]), node)
       ELSE extract_right_loop(t, nexts, 1, <<node>>)

RECURSIVE longest_loop(_, _, _, _, _)
longest_loop(t, nexts, i, max_depth, longest) ==
    IF i > Len(nexts) THEN longest
    ELSE LET d == depth(t, nexts[i])
         IN IF Deeper(d, max_depth)
            THEN longest_loop(t, nexts, i + 1, d, nexts[i])
            ELSE longest_loop(t, nexts, i + 1, max_depth, longest)

longest_right(t, node) ==
    LET nexts == t[node].next
    IN IF Len(nexts) = 0 THEN node
       ELSE IF Len(nexts) = 1 THEN nexts[1]
       ELSE longest_loop(t, nexts, 1, 0, node)

\* ---- Chain ---------------------------------------------------------------
longest_chain_depth(h, t) ==
    IF h = NoNode THEN 0 ELSE depth(t, h)

orphans_len(o) == Cardinality(DOMAIN o)

\* the nodes the program can still reach: from head and from the nodes map,
\* along next and prev
RECURSIVE Live(_, _)
Live(t, S) ==
    LET S2 == S \cup UNION {Range(t[n].next) \cup ({t[n].prev} \ {NoNode}) : n \in S}
    IN IF S2 = S THEN S ELSE Live(t, S2)

Collect(h, t, nd) ==
    LET keep == Live(t, ({h} \ {NoNode}) \cup Range(nd))
    IN [n \in keep |-> t[n]]

\* a slip: a genesis block is taken while a head is present
IsGenesisCaseAnyHead(h, prev_hash) == prev_hash = ZERO

\* a slip: the two tests are joined by || where the code has &&
IsGenesisCaseEither(h, prev_hash) == h = NoNode \/ prev_hash = ZERO

IsGenesisCase(h, prev_hash) == h = NoNode /\ prev_hash = ZERO

\* a slip: the orphan is queued under its own id
OrphanKeyOwn(block_hash, prev_hash) == block_hash

\* a slip: the orphan is queued under the genesis identifier
OrphanKeyGenesis(block_hash, prev_hash) == ZERO

OrphanKey(block_hash, prev_hash) == prev_hash

ResolveKey(block_hash, prev_hash) == block_hash

\* one call of Chain::insert on block b; rec = the orphan it goes on to
\* insert (the recursive call of line 205) or NoBlock when it returns
insert(h, t, nd, o, mk, b) ==
    LET block_hash == get_block_id(b)
        prev_hash == get_block_prev_id(b)
        node == <<b, mk[b] + 1>>
        mk2 == [mk EXCEPT ![b] = @ + 1]
    IN IF IsGenesisCase(h, prev_hash)
       THEN [head |-> node,
             tree |-> MapPut(t, node, NewNode(b, NoNode)),
             nodes |-> MapPut(nd, block_hash, node),
             orphans |-> o, made |-> mk2, rec |-> NoBlock]
       ELSE IF prev_hash \notin DOMAIN nd
       THEN [head |-> h, tree |-> t, nodes |-> nd,
             orphans |-> MapPut(o, OrphanKey(block_hash, prev_hash), b),
             made |-> mk, rec |-> NoBlock]
       ELSE LET parent_node == nd[prev_hash]
                t2 == add_next(MapPut(t, node, NewNode(b, parent_node)), parent_node, node)
                nd2 == MapPut(nd, block_hash, node)
                key == ResolveKey(block_hash, prev_hash)
            IN IF key \in DOMAIN o
               THEN [head |-> h, tree |-> Collect(h, t2, nd2), nodes |-> nd2,
                     orphans |-> MapRemove(o, key), made |-> mk2, rec |-> o[key]]
               ELSE [head |-> h, tree |-> Collect(h, t2, nd2), nodes |-> nd2,
                     orphans |-> o, made |-> mk2, rec |-> NoBlock]

\* a slip: the first child is taken, as for a single child
NewHeadFirst(head_node_next, next) ==
    IF Len(head_node_next) = 0 THEN NoNode ELSE head_node_next[1]

NewHead(head_node_next, next) ==
    IF Len(head_node_next) = 0 THEN NoNode
    ELSE IF Len(head_node_next) = 1 THEN head_node_next[1]
    ELSE next

\* the nodes pop_head forgets: every subtree of head but the one of next
PrunedNodes(t, head_node_next, next) ==
    IF Len(head_node_next) < 2 THEN {}
    ELSE UNION {Range(extract_right(t, head_node_next[i])) :
                   i \in {j \in 1..Len(head_node_next) : head_node_next[j] # next}}

pop_head(h, t, nd) ==
    IF h = NoNode
    THEN [ret |-> NoBlock, node |-> NoNode, head |-> h, tree |-> t, nodes |-> nd,
          pruned |-> {}, panic |-> FALSE]
    ELSE
    LET longest_chain == longest_right(t, h)
        chain == extract_left(t, longest_chain)
        head_node == chain[1]
        blk == t[head_node].block
        t1 == [t EXCEPT ![head_node].block = NoBlock]
        nd1 == MapRemove(nd, get_block_id(blk))
    IN IF blk = NoBlock
       THEN [ret |-> NoBlock, node |-> NoNode, head |-> h, tree |-> t, nodes |-> nd,
             pruned |-> {}, panic |-> TRUE]
       ELSE IF Len(chain) < 2
       THEN [ret |-> blk, node |-> head_node, head |-> NoNode,
             tree |-> Collect(NoNode, t1, nd1), nodes |-> nd1,
             pruned |-> {}, panic |-> FALSE]
       ELSE
       LET next == chain[2]
           t2 == [t1 EXCEPT ![next].prev = NoNode]
           nexts == t2[head_node].next
           gone == PrunedNodes(t2, nexts, next)
           nd2 == MapRemoveAll(nd1, {get_block_id(t2[n].block) : n \in gone})
           h2 == NewHead(nexts, next)
       IN [ret |-> blk, node |-> head_node, head |-> h2,
           tree |-> Collect(h2, t2, nd2), nodes |-> nd2,
           pruned |-> gone,
           panic |-> \E n \in gone : t2[n].block = NoBlock]

\* ---- BlockReader ---------------------------------------------------------
\* slips: the counter is left as it was; the counter is advanced twice
NextHeightStale(h) == h

NextHeightSkip(h) == h + 2

NextHeight(h) == h + 1

\* a slip: the cap is passed, not reached
max_height_passed(h, mb) ==
    IF mb = None THEN FALSE ELSE h > mb[1]

max_height_reached(h, mb) ==
    IF mb = None THEN FALSE ELSE h >= mb[1]

\* a slip: the cap is passed, not reached
max_orphans_passed(o, mo) ==
    IF mo = None THEN FALSE ELSE orphans_len(o) > mo[1]

max_orphans_reached(o, mo) ==
    IF mo = None THEN FALSE ELSE orphans_len(o) >= mo[1]

\* slips: any non-empty forest is drained; the depth is one short
ConfirmedAtOnce(d) == d >= 1

ConfirmedEarly(d) == d >= CONFIRMATION_DEPTH - 1

\* a slip: the depth must pass the threshold
ConfirmedLate(d) == d > CONFIRMATION_DEPTH

Confirmed(d) == d >= CONFIRMATION_DEPTH

\* ---- the input -----------------------------------------------------------
\* a record the decoder can yield next: a block not delivered before, or,
\* MaxDup times, one delivered before; without a max_orphans cap the input
\* lets at most MaxPending orphans wait
Available(b, universe, max_dup) ==
    /\ b \in universe
    /\ b \in delivered => ndup < max_dup
    /\ \/ IsGenesisCase(head, get_block_prev_id(b))
       \/ get_block_prev_id(b) \in DOMAIN nodes
       \/ get_block_prev_id(b) \in DOMAIN orphans
       \/ orphans_len(orphans) < MaxPending
       \/ max_orphans # None

Deliver(b) ==
    /\ delivered' = delivered \cup {b}
    /\ ndup' = IF b \in delivered THEN ndup + 1 ELSE ndup

Options ==
    {<<None, None>>}
      \cup {<<Some(m), None>> : m \in 0..MaxBlocksCap}
      \cup {<<None, Some(k)>> : k \in 0..MaxOrphansCap}

InitChain ==
    /\ head = NoNode
    /\ tree = EmptyMap
    /\ nodes = EmptyMap
    /\ orphans = EmptyMap
    /\ made = [b \in Blocks |-> 0]

InitGhost ==
    /\ cur = NoBlock
    /\ arg = NoBlock
    /\ nfiles = 0
    /\ delivered = {}
    /\ ndup = 0
    /\ emitted = <<>>
    /\ popped = <<>>
    /\ ret = NoBlock
    /\ pruned = {}
    /\ lost = {}
    /\ why = ""
    /\ result = ""
    /\ offset = 0
    /\ local_height = 0
    /\ time = 0
    /\ cbs = <<>>
    /\ consumed = {}
    /\ located = <<>>
    /\ late = {}

\* BlockReader::new, then read() entered
Init ==
    /\ InitChain
    /\ InitGhost
    /\ height = 0
    /\ \E op \in Options : max_blocks = op[1] /\ max_orphans = op[2]
    /\ stop_flag = FALSE
    /\ file_cb = None
    /\ pc = "read"

\* read(): the for loop over the entries
ReadNext ==
    /\ pc = "read"
    /\ \E more \in BOOLEAN :
         IF ~more
         THEN pc' = "done" /\ why' = "exhausted" /\ nfiles' = nfiles /\ result' = "Ok"
         ELSE /\ nfiles < MaxFiles
              /\ IF max_height_reached(height, max_blocks)
                 THEN pc' = "done" /\ why' = "max_blocks" /\ nfiles' = nfiles
                      /\ result' = "Ok"
                 ELSE /\ \E b \in Blocks : Available(b, Blocks, MaxDup)
                      /\ pc' = "record"
                      /\ why' = why
                      /\ nfiles' = nfiles + 1
                      /\ result' = result
    /\ UNCHANGED <<chainVars, optVars, late, height, stop_flag, cur, arg, delivered, ndup,
                   emitted, popped, ret, pruned, lost,
                   fileVars>>

\* read_blocs(): a record is decoded and handed to BlockReader::insert
ReadRecord(b) ==
    /\ pc = "record"
    /\ Available(b, Blocks, MaxDup)
    /\ Deliver(b)
    /\ cur' = b
    /\ arg' = b
    /\ pc' = "insert"
    /\ UNCHANGED <<chainVars, optVars, late, height, stop_flag, nfiles, emitted, popped,
                   ret, pruned, lost, why,
                   result, fileVars>>

\* the ids handed to block_cb so far
emitted_ids(em) == {em[i].id : i \in 1..Len(em)}

\* Chain::insert, one call; it goes on with the orphan it resolved; late
\* keeps the blocks handed to insert after their parent was emitted
InsertStep(retpc) ==
    /\ pc = "insert"
    /\ late' = IF get_block_prev_id(cur) \in emitted_ids(emitted)
               THEN late \cup {cur} ELSE late
    /\ LET r == insert(head, tree, nodes, orphans, made, cur)
       IN /\ head' = r.head
          /\ tree' = r.tree
          /\ nodes' = r.nodes
          /\ orphans' = r.orphans
          /\ made' = r.made
          /\ cur' = r.rec
          /\ pc' = IF r.rec = NoBlock THEN retpc ELSE "insert"
    /\ UNCHANGED <<optVars, height, stop_flag, arg, nfiles, delivered, ndup,
                   emitted, popped, ret, pruned, lost, why,
                   result, fileVars>>

\* what a pop_head leaves behind, for the record: the node it returned (and
\* whether it was the last of the forest), the nodes it pruned, and the
\* block ids that sat in the pruned subtrees only
IdsOf(t, ns) == {get_block_id(t[n].block) : n \in ns}

Subtree(t, n) == Range(extract_right(t, n))

Kept(t, h) == IF h \in DOMAIN t THEN Subtree(t, h) ELSE {}

Record(r) ==
    /\ ret' = r.ret
    /\ pruned' = pruned \cup r.pruned
    /\ popped' = IF r.ret = NoBlock THEN popped
                 ELSE Append(popped, [node |-> r.node, id |-> get_block_id(r.ret),
                                      last |-> r.head = NoNode])
    /\ lost' = IF r.pruned = {} THEN lost
               ELSE lost \cup ((IdsOf(tree, r.pruned) \ IdsOf(tree, Kept(tree, r.head)))
                                  \X {Len(popped')})

push_block(blk) ==
    /\ height' = NextHeight(height)
    /\ emitted' = Append(emitted, [id |-> get_block_id(blk), height |-> height])

\* BlockReader::insert, one turn of the while loop
DrainPop ==
    /\ pc = "drain"
    /\ Confirmed(longest_chain_depth(head, tree))
    /\ LET r == pop_head(head, tree, nodes)
       IN /\ head' = r.head
          /\ tree' = r.tree
          /\ nodes' = r.nodes
          /\ Record(r)
          /\ IF r.panic
             THEN /\ pc' = "panic"
                  /\ UNCHANGED <<height, emitted,
                   result, fileVars>>
             ELSE IF r.ret = NoBlock
             THEN /\ pc' = "check"
                  /\ UNCHANGED <<height, emitted,
                   result, fileVars>>
             ELSE /\ push_block(r.ret)
                  /\ pc' = IF max_height_reached(height', max_blocks)
                           THEN "check" ELSE "drain"
    /\ UNCHANGED <<orphans, made, optVars, late, stop_flag, cur, arg, nfiles, delivered, ndup,
                   why,
                   result, fileVars>>

DrainExit ==
    /\ pc = "drain"
    /\ ~Confirmed(longest_chain_depth(head, tree))
    /\ pc' = "check"
    /\ UNCHANGED <<chainVars, optVars, late, height, stop_flag, cur, arg, nfiles, delivered,
                   ndup, emitted, popped, ret, pruned, lost, why,
                   result, fileVars>>

\* read_blocs(): the checks after the insert of a record
AfterRecord ==
    /\ pc = "check"
    /\ IF stop_flag
       THEN pc' = "done" /\ why' = "stop_flag" /\ result' = "Ok"
       ELSE IF max_height_reached(height, max_blocks)
       THEN pc' = "done" /\ why' = "max_blocks" /\ result' = "Ok"
       ELSE IF max_orphans_reached(orphans, max_orphans)
       THEN pc' = "done" /\ why' = "max_orphans" /\ result' = "Ok"
       ELSE \E eof \in BOOLEAN :
              /\ ~eof => \E b \in Blocks : Available(b, Blocks, MaxDup)
              /\ pc' = IF eof THEN "read" ELSE "record"
              /\ why' = why
              /\ result' = result
    /\ UNCHANGED <<chainVars, optVars, late, height, stop_flag, cur, arg, nfiles, delivered,
                   ndup, emitted, popped, ret, pruned, lost,
                   fileVars>>

\* another thread or a signal handler sets the flag; the store is taken
\* where the next load of line 169 tells it apart: before a file is opened,
\* or after the insert of a record
SetStop ==
    /\ pc \in {"read", "check"}
    /\ ~stop_flag
    /\ stop_flag' = TRUE
    /\ UNCHANGED <<chainVars, optVars, late, height, pc, cur, arg, nfiles, delivered, ndup,
                   emitted, popped, ret, pruned, lost, why,
                   result, fileVars>>

Next ==
    \/ ReadNext
    \/ \E b \in Blocks : ReadRecord(b)
    \/ InsertStep("drain")
    \/ DrainPop
    \/ DrainExit
    \/ AfterRecord
    \/ SetStop

Spec == Init /\ [][Next]_vars

\* ---- the assembler used alone: any sequence of insert and pop_head --------
ChainUniverse == (1..ChainBlocks) \cup ForkBlocks

InitAlone ==
    /\ InitChain
    /\ InitGhost
    /\ height = 0
    /\ max_blocks = None
    /\ max_orphans = None
    /\ stop_flag = FALSE
    /\ file_cb = None
    /\ pc = "idle"

CallInsert(b) ==
    /\ pc = "idle"
    /\ Available(b, ChainUniverse, MaxChainDup)
    /\ Deliver(b)
    /\ cur' = b
    /\ arg' = b
    /\ pc' = "insert"
    /\ UNCHANGED <<chainVars, optVars, late, height, stop_flag, nfiles, emitted, popped,
                   ret, pruned, lost, why,
                   result, fileVars>>

CallPopHead ==
    /\ pc = "idle"
    /\ LET r == pop_head(head, tree, nodes)
       IN /\ head' = r.head
          /\ tree' = r.tree
          /\ nodes' = r.nodes
          /\ Record(r)
          /\ pc' = IF r.panic THEN "panic" ELSE "idle"
    /\ UNCHANGED <<orphans, made, optVars, late, height, stop_flag, cur, arg, nfiles,
                   delivered, ndup, emitted, why,
                   result, fileVars>>

NextAlone ==
    \/ \E b \in ChainUniverse : CallInsert(b)
    \/ InsertStep("idle")
    \/ CallPopHead

SpecAlone == InitAlone /\ [][NextAlone]_vars

\* a call of insert under way runs on: the program has one thread
FairSpecAlone == SpecAlone /\ WF_vars(InsertStep("idle"))

\* ---- the reader over the bytes of the blk files ---------------------------
\* The directory holds the main chain, each block at most MaxAhead records
\* ahead of its turn; a file is a run of frames (magic, size, header, data)
\* that may end anywhere: at a frame boundary, inside a frame, or in bytes
\* that are not the magic.  A file callback is set.
Size(b) == HeaderLen + 1 + (b % 2)

header_time(b) == 600 * b

Lowest(S) == CHOOSE b \in S : \A c \in S : b <= c

InOrder(b) ==
    /\ b \in MainBlocks \ delivered
    /\ b <= Lowest(MainBlocks \ delivered) + MaxAhead

InitFile ==
    /\ InitChain
    /\ InitGhost
    /\ height = 0
    /\ \E op \in Options : max_blocks = op[1] /\ max_orphans = op[2]
    /\ stop_flag = FALSE
    /\ file_cb = Some("file_cb")
    /\ pc = "read"

\* read(): the for loop over the entries; read_blocs() opens the file
OpenFile ==
    /\ pc = "read"
    /\ \E more \in BOOLEAN :
         IF ~more
         THEN pc' = "done" /\ why' = "exhausted" /\ result' = "Ok"
              /\ UNCHANGED <<nfiles, offset, located>>
         ELSE /\ nfiles < MaxFiles
              /\ IF max_height_reached(height, max_blocks)
                 THEN pc' = "done" /\ why' = "max_blocks" /\ result' = "Ok"
                      /\ UNCHANGED <<nfiles, offset, located>>
                 ELSE /\ pc' = "record"
                      /\ nfiles' = nfiles + 1
                      /\ offset' = 0
                      /\ located' = <<>>
                      /\ UNCHANGED <<why, result>>
    /\ UNCHANGED <<chainVars, optVars, late, height, stop_flag, cur, arg, delivered, ndup,
                   emitted, popped, ret, pruned, lost,
                   file_cb, local_height, time, cbs, consumed>>

\* the record handed to insert: its block, where its frame starts, the size
\* read from the frame and the index of the file; nth: the turns of the
\* loop of read_blocs so far
LazyBlock(b, off, idx, n) ==
    [block |-> b, offset |-> off, size |-> Size(b), blk_index |-> idx, nth |-> n]

\* the record handed to insert and the one handed to it before, if any
Located(recs, rec) ==
    IF recs = <<>> THEN <<rec>> ELSE <<recs[Len(recs)], rec>>

Turn(recs) == IF recs = <<>> THEN 1 ELSE recs[Len(recs)].nth + 1

\* read_blocs(): the frame at offset decodes; its block goes to insert
DecodeRecord(b) ==
    /\ pc = "record"
    /\ InOrder(b)
    /\ Deliver(b)
    /\ time' = header_time(b)
    /\ local_height' = height
    /\ located' = Located(located, LazyBlock(b, offset, nfiles, Turn(located)))
    /\ cur' = b
    /\ arg' = b
    /\ pc' = "insert"
    /\ UNCHANGED <<chainVars, optVars, late, height, stop_flag, nfiles, emitted, popped,
                   ret, pruned, lost, why, result, file_cb, offset, cbs, consumed>>

\* read_blocs(): the 4 bytes at offset are not the magic
DecodeCorrupt ==
    /\ pc = "record"
    /\ pc' = "done"
    /\ why' = "corrupt"
    /\ result' = "Err"
    /\ UNCHANGED <<chainVars, optVars, late, height, stop_flag, cur, arg, nfiles, delivered,
                   ndup, emitted, popped, ret, pruned, lost, fileVars>>

\* read_blocs(): the file ends before the frame at offset does: at once (an
\* empty file; after a record the test of offset against file_size has
\* returned already) or inside the frame; the unwrap of the decode panics
DecodePanic ==
    /\ pc = "record"
    /\ pc' = "panic"
    /\ \/ offset = 0 /\ why' = "eof"
       \/ why' = "truncated"
    /\ UNCHANGED <<chainVars, optVars, late, height, stop_flag, cur, arg, nfiles, delivered,
                   ndup, emitted, popped, ret, pruned, lost, result, fileVars>>

\* a slip: the 8 bytes of magic and size are left out
NextOffsetBare(off, size) == off + size

\* a slip: the 4 bytes of the size field are left out
NextOffsetMagicOnly(off, size) == off + 4 + size

NextOffset(off, size) == off + 4 + 4 + size

\* a slip: the callback is not under the end-of-file test
CallsBackAlways(eof, cb) == cb # None

CallsBack(eof, cb) == eof /\ cb # None

\* the call of file_cb, with what the reader held at that moment (now: its
\* height; last: the record just inserted)
FileCall(path, h, t) ==
    [file |-> path, height |-> h, time |-> t, now |-> height, last |-> arg]

\* read_blocs(): offset moves past the frame, then the checks; eof: the new
\* offset has reached file_size
AfterFrame ==
    /\ pc = "check"
    /\ offset' = NextOffset(offset, Size(arg))
    /\ \E eof \in BOOLEAN :
         /\ consumed' = IF eof THEN consumed \cup {nfiles} ELSE consumed
         /\ IF stop_flag
            THEN pc' = "done" /\ why' = "stop_flag" /\ result' = "Ok" /\ cbs' = cbs
            ELSE IF max_height_reached(height, max_blocks)
            THEN pc' = "done" /\ why' = "max_blocks" /\ result' = "Ok" /\ cbs' = cbs
            ELSE IF max_orphans_reached(orphans, max_orphans)
            THEN pc' = "done" /\ why' = "max_orphans" /\ result' = "Ok" /\ cbs' = cbs
            ELSE /\ pc' = IF eof THEN "read" ELSE "record"
                 /\ cbs' = IF CallsBack(eof, file_cb)
                           THEN Append(cbs, FileCall(nfiles, local_height, time))
                           ELSE cbs
                 /\ UNCHANGED <<why, result>>
    /\ UNCHANGED <<chainVars, optVars, late, height, stop_flag, cur, arg, nfiles, delivered,
                   ndup, emitted, popped, ret, pruned, lost,
                   file_cb, local_height, time, located>>

NextFile ==
    \/ OpenFile
    \/ \E b \in MainBlocks : DecodeRecord(b)
    \/ DecodeCorrupt
    \/ DecodePanic
    \/ InsertStep("drain")
    \/ DrainPop
    \/ DrainExit
    \/ AfterFrame
    \/ SetStop

SpecFile == InitFile /\ [][NextFile]_vars

TypeOK ==
    /\ pc \in {"idle", "read", "record", "insert", "drain", "check", "done", "panic"}
    /\ height \in Nat
    /\ result \in {"", "Ok", "Err"}
    /\ offset \in Nat
    /\ local_height \in Nat
    /\ consumed \subseteq 1..nfiles
    /\ late \subseteq Blocks

\* ---- what the claims speak of ---------------------------------------------
\* the number of nodes on the longest downward path from n, counted level by
\* level
RECURSIVE Levels(_, _)
Levels(t, S) ==
    IF S = {} THEN 0
    ELSE 1 + Levels(t, UNION {Range(t[n].next) : n \in S})

PathDepth(t, n) == Levels(t, {n})

Emitted == 1..Len(emitted)

Popped == 1..Len(popped)

\* C1. Monotone emission: the heights passed to block_cb are 0, 1, 2, ... in
\* that order, and the height counter is the number of blocks emitted so far.
MonotoneEmission ==
    /\ height = Len(emitted)
    /\ \A i \in Emitted : emitted[i].height = i - 1

MonotoneEmissionWitness ==
    /\ Len(emitted) >= 2
    /\ height = 2

\* C2. Parent precedes child: an emitted block whose parent was emitted comes
\* after its parent, at the next height.
ParentPrecedesChild ==
    \A i, j \in Emitted :
        get_block_prev_id(emitted[j].id) = emitted[i].id
            => i < j /\ emitted[j].height = emitted[i].height + 1

ParentPrecedesChildWitness ==
    \E i, j \in Emitted : get_block_prev_id(emitted[j].id) = emitted[i].id

\* C3. No re-emission: no block id is passed to block_cb twice, also when
\* blocks are delivered more than once.
NoReEmission ==
    \A i, j \in Emitted : i # j => emitted[i].id # emitted[j].id

NoReEmissionWitness ==
    \E i \in Emitted : made[emitted[i].id] >= 2

\* C4. Orphan eventual attachment: when the input is exhausted, no block was
\* delivered twice, no two delivered blocks share a parent, nothing was
\* emitted and the parent of every delivered block was delivered too (the
\* genesis block has none), no orphan is left and every delivered block is
\* in the forest.
AllParentsArrived ==
    \A b \in delivered :
        get_block_prev_id(b) = ZERO \/ get_block_prev_id(b) \in delivered

NoSharedParent ==
    \A a, b \in delivered : a # b => get_block_prev_id(a) # get_block_prev_id(b)

OrphanEventualAttachment ==
    (/\ pc = "done"
     /\ why = "exhausted"
     /\ ndup = 0
     /\ height = 0
     /\ AllParentsArrived
     /\ NoSharedParent)
        => /\ orphans_len(orphans) = 0
           /\ delivered \subseteq DOMAIN nodes

\* C5 as claimed. Prune exclusivity: a block id that sat only in the pruned
\* sibling subtrees of a pop_head is returned by no later pop_head.
PruneExclusivity ==
    \A e \in lost : \A j \in Popped : j > e[2] => popped[j].id # e[1]

\* C5 as amended. The same, for as long as pop_head has not removed the last
\* node of the forest since the pruning.
PruneExclusivityWhileNonEmpty ==
    \A e \in lost : \A j \in Popped :
        (j > e[2] /\ popped[j].id = e[1])
            => \E i \in Popped : e[2] < i /\ i < j /\ popped[i].last

PruneExclusivityWitness ==
    \E e \in lost : \E j \in Popped : j > e[2] + 1

\* C6. pop_head returns None iff the forest is empty; otherwise it returns
\* the block of head, whose id leaves nodes, and the new head is a child of
\* the old head no other child of which is deeper (none for a childless head).
PopHeadStep == pc = "idle" /\ pc' # "insert"

PopHeadResult ==
    /\ pc' = "idle"
    /\ (ret' = NoBlock) <=> (head = NoNode)
    /\ head # NoNode =>
          /\ ret' = tree[head].block
          /\ get_block_id(ret') \notin DOMAIN nodes'
          /\ IF tree[head].next = <<>>
             THEN head' = NoNode
             ELSE /\ head' \in Range(tree[head].next)
                  /\ \A c \in Range(tree[head].next) :
                        PathDepth(tree, c) <= PathDepth(tree, head')

PopHeadContract == [][PopHeadStep => PopHeadResult]_vars

PopHeadContractWitness ==
    /\ pc = "idle"
    /\ Len(popped) >= 1
    /\ pruned # {}
    /\ head # NoNode
    /\ ret # NoBlock

\* C7. Chain::insert cannot fail: every call that goes on to a resolved
\* orphan leaves fewer orphans than it found, so the recursion ends; it ends
\* without a panic, with the inserted block a node of the forest or the
\* orphan queued under its parent id; and an insert under way returns.
InsertReturns == pc = "insert" /\ pc' # "insert"

InsertRecurses == pc = "insert" /\ pc' = "insert"

InsertedOrQueued(t, o, b) ==
    \/ \E n \in DOMAIN t : t[n].block = b
    \/ /\ get_block_prev_id(b) \in DOMAIN o
       /\ o[get_block_prev_id(b)] = b

InsertCannotFail ==
    /\ [][InsertRecurses => orphans_len(orphans') < orphans_len(orphans)]_vars
    /\ [][InsertReturns => pc' = "idle" /\ InsertedOrQueued(tree', orphans', arg)]_vars
    /\ (pc = "insert") ~> (pc = "idle")

InsertCannotFailWitness ==
    /\ pc = "insert"
    /\ cur # arg
    /\ cur \in DOMAIN orphans

\* C8. Confirmation depth: a block is emitted only in a turn of the drain
\* loop, when it is the block of head and the longest path from head holds
\* at least 10 nodes; Chain::insert emits nothing.
EmitsConfirmedOnly ==
    [][emitted' # emitted =>
          /\ pc = "drain"
          /\ head # NoNode
          /\ PathDepth(tree, head) >= CONFIRMATION_DEPTH
          /\ emitted' = Append(emitted, [id |-> get_block_id(tree[head].block),
                                         height |-> height])]_vars

EmitsConfirmedOnlyWitness ==
    /\ Len(emitted) >= 1
    /\ pc = "drain"

\* C9. max_blocks cap: with max_blocks = Some(m) the height never exceeds m;
\* once it has reached m no record is inserted and the read returns Ok; with
\* max_blocks = None the read never ends for the height.
MaxBlocksRespected ==
    /\ [](max_blocks # None => height <= max_blocks[1])
    /\ [](max_height_reached(height, max_blocks) => pc \in {"read", "check", "done"})
    /\ [][max_height_reached(height, max_blocks) =>
            /\ delivered' = delivered
            /\ ndup' = ndup
            /\ emitted' = emitted
            /\ pc' = "done" \/ pc' = pc]_vars
    /\ [](max_blocks = None => why # "max_blocks")

MaxBlocksRespectedWitness ==
    /\ max_blocks # None
    /\ max_blocks[1] >= 1
    /\ height = max_blocks[1]
    /\ longest_chain_depth(head, tree) >= CONFIRMATION_DEPTH
    /\ pc = "done"

\* C10. max_orphans cap: with max_orphans = Some(k) the number of orphans
\* never exceeds k.
MaxOrphansRespected ==
    max_orphans # None => orphans_len(orphans) <= max_orphans[1]

\* C11. stop_flag is observed before each record insertion: once the flag is
\* true, whether it was set before read() opened its first file or between
\* two records, no further record is handed to the assembler.
StopObservedBeforeInsert ==
    [][stop_flag => delivered' = delivered /\ ndup' = ndup]_vars

\* C12. Graceful cancellation: when the checks after a record find the stop
\* flag set, the height at max_blocks or the orphans at max_orphans, or the
\* check before a file finds the height at max_blocks, read() returns Ok at
\* once: the forest, the orphan map and the height stay as they were, and
\* once it has returned no record is decoded, no file opened and nothing
\* emitted.
CapObserved ==
    \/ max_blocks # None /\ height >= max_blocks[1]
    \/ max_orphans # None /\ orphans_len(orphans) >= max_orphans[1]

Retained ==
    UNCHANGED <<chainVars, height, delivered, ndup, nfiles, emitted>>

GracefulCancellation ==
    /\ [][(pc = "check" /\ (stop_flag \/ CapObserved) /\ stop_flag' = stop_flag)
             => (pc' = "done" /\ result' = "Ok" /\ Retained)]_vars
    /\ [][(pc = "read" /\ max_blocks # None /\ height >= max_blocks[1])
             => (pc' \in {"read", "done"} /\ Retained)]_vars
    /\ [][pc = "done" => (pc' = "done" /\ result' = result /\ Retained)]_vars
    /\ [](pc = "done" => result = "Ok")

GracefulCancellationWitness ==
    /\ pc = "done"
    /\ why = "max_orphans"
    /\ result = "Ok"
    /\ head # NoNode
    /\ orphans_len(orphans) >= 1
    /\ nfiles >= 2

\* C13. file_cb arguments: every call of file_cb gets the height the reader
\* has at the call, the blocks emitted while the last record of the file was
\* inserted included, and the header time of the last record read from the
\* file.
Calls == 1..Len(cbs)

FileCbArguments ==
    \A i \in Calls :
        /\ cbs[i].height = cbs[i].now
        /\ cbs[i].time = header_time(cbs[i].last)

\* C14. file_cb is called exactly once for every file all of whose records
\* were decoded and inserted, the file whose last record is the one after
\* which a stop flag or a cap is observed included, and for no other file.
CallsFor(f) == {i \in Calls : cbs[i].file = f}

FileCbOncePerFile ==
    /\ \A f \in consumed : Cardinality(CallsFor(f)) = 1
    /\ \A i \in Calls : cbs[i].file \in consumed

\* C15. Corrupt frame: when the 4 bytes at a record boundary are not the
\* magic, read() returns an error and goes no further: no record and no
\* file is read after it, file_cb is not called for the file, and the
\* forest, the height and the emitted blocks stay as they were; in the first
\* file the failure is at the offset of the first byte after the records
\* read so far (8 + the size of the first record after one record).
RECURSIVE SumFrames(_)
SumFrames(S) ==
    IF S = {} THEN 0
    ELSE LET b == CHOOSE x \in S : TRUE
         IN FrameLen + Size(b) + SumFrames(S \ {b})

CorruptFrame ==
    /\ [][(pc = "record" /\ why' = "corrupt")
             => /\ pc' = "done"
                /\ result' = "Err"
                /\ UNCHANGED <<chainVars, height, delivered, emitted, nfiles,
                               offset, cbs, consumed>>]_vars
    /\ [][result = "Err"
             => UNCHANGED <<chainVars, height, delivered, emitted, nfiles,
                            offset, cbs, consumed, pc, result>>]_vars
    /\ [](result = "Err"
             => /\ pc = "done"
                /\ CallsFor(nfiles) = {}
                /\ nfiles = 1 => offset = SumFrames(delivered)
                /\ (nfiles = 1 /\ delivered = {arg})
                      => offset = FrameLen + Size(arg))

CorruptFrameWitness ==
    /\ result = "Err"
    /\ nfiles = 1
    /\ Len(emitted) >= 1
    /\ offset > 0

\* C16. Clean end of file: a file that ends at a record boundary, a file of
\* zero records included, ends without an error and without a panic, and
\* the reader goes on to the next file.
CleanEndOfFile ==
    /\ why = "eof" => (pc = "read" /\ result = "")
    /\ pc = "panic" => why # "eof"

\* C17. Block conservation: between two operations of the assembler every
\* block handed to it is in one of four places, the forest, the orphan map,
\* the blocks pop_head returned, the pruned nodes; counted with the times it
\* was handed in, none is lost and none is counted twice.
InForest == {n \in DOMAIN tree : tree[n].block # NoBlock /\ n \notin pruned}

Places(b) ==
    \/ \E n \in InForest : tree[n].block = b
    \/ b \in Range(orphans)
    \/ \E i \in Popped : popped[i].id = get_block_id(b)
    \/ \E n \in pruned : n[1] = b

BlockConservation ==
    pc = "idle" =>
        /\ \A b \in delivered : Places(b)
        /\ Cardinality(delivered) + ndup
              = Cardinality(InForest) + orphans_len(orphans)
                  + Len(popped) + Cardinality(pruned)

\* C18. nodes invariant: between two operations of the assembler, a block
\* attached a second time included, the nodes map holds exactly the nodes
\* reachable from head along child edges: each of them is the value stored
\* under its own id, and no entry is a node that was popped or pruned.
Reachable == IF head = NoNode THEN {} ELSE Subtree(tree, head)

NodesExactlyReachable ==
    pc = "idle" =>
        /\ Range(nodes) = Reachable
        /\ \A n \in Reachable :
              /\ get_block_id(tree[n].block) \in DOMAIN nodes
              /\ nodes[get_block_id(tree[n].block)] = n
        /\ \A k \in DOMAIN nodes :
              /\ nodes[k] \notin pruned
              /\ \A i \in Popped : popped[i].node # nodes[k]

\* C19. orphans invariant: between two operations of the assembler no key
\* of the orphan map is the id of a block in nodes, and every orphan is
\* stored under its own prev_id.
OrphansInvariant ==
    pc = "idle" =>
        \A k \in DOMAIN orphans :
            /\ k \notin DOMAIN nodes
            /\ get_block_prev_id(orphans[k]) = k

\* C20. Orphan resolution step: every call of insert that makes a node of
\* its block, by the genesis case or by the attach case, takes the orphan
\* queued under the id of that block out of the orphan map and goes on to
\* insert it within the same call.
BecomesNode == pc = "insert" /\ made' # made

OrphanResolutionStep ==
    [][(BecomesNode /\ get_block_id(cur) \in DOMAIN orphans)
          => /\ get_block_id(cur) \notin DOMAIN orphans'
             /\ cur' = orphans[get_block_id(cur)]
             /\ pc' = "insert"]_vars

\* C21. Orphan replacement: a call of insert that takes the orphan case for
\* a missing parent on which an orphan already waits leaves the number of
\* orphans as it was and stores the block that arrived in place of the one
\* that waited; the other entries stay.
OrphanCase ==
    /\ pc = "insert"
    /\ ~IsGenesisCase(head, get_block_prev_id(cur))
    /\ get_block_prev_id(cur) \notin DOMAIN nodes

OrphanReplacement ==
    [][(OrphanCase /\ get_block_prev_id(cur) \in DOMAIN orphans)
          => /\ orphans_len(orphans') = orphans_len(orphans)
             /\ DOMAIN orphans' = DOMAIN orphans
             /\ orphans'[get_block_prev_id(cur)] = cur
             /\ \A k \in DOMAIN orphans :
                   k # get_block_prev_id(cur) => orphans'[k] = orphans[k]]_vars

OrphanReplacementWitness ==
    /\ pc = "idle"
    /\ \E k \in DOMAIN orphans : \E b \in delivered :
          /\ b # orphans[k]
          /\ get_block_prev_id(b) = k
          /\ made[b] = 0

\* C22. longest_chain_depth() is 0 for the empty forest and otherwise the
\* number of nodes on the longest downward path from head, head included,
\* in every forest insert and pop_head can build.
DepthIsLongestPath ==
    longest_chain_depth(head, tree)
        = IF head = NoNode THEN 0 ELSE PathDepth(tree, head)

DepthIsLongestPathWitness ==
    /\ head # NoNode
    /\ Len(tree[head].next) >= 2
    /\ PathDepth(tree, tree[head].next[1]) < PathDepth(tree, tree[head].next[2])
    /\ Len(popped) >= 1

\* C23. Tie-break on pop_head: when head has several children, the new head
\* is the first, in the order of their insertion, of the children whose
\* subtree is deepest, and no node of the subtrees of the other children
\* stays registered in nodes.
FirstDeepest(t, nexts) ==
    nexts[CHOOSE i \in 1..Len(nexts) :
            /\ \A j \in 1..Len(nexts) : PathDepth(t, nexts[j]) <= PathDepth(t, nexts[i])
            /\ \A j \in 1..(i - 1) : PathDepth(t, nexts[j]) < PathDepth(t, nexts[i])]

TieBreakFirstInserted ==
    [][(PopHeadStep /\ head # NoNode /\ Len(tree[head].next) >= 2)
          => /\ head' = FirstDeepest(tree, tree[head].next)
             /\ \A c \in Range(tree[head].next) :
                   c # head' => Subtree(tree, c) \cap Range(nodes') = {}]_vars

TieBreakFirstInsertedWitness ==
    /\ pc = "idle"
    /\ head # NoNode
    /\ tree[head].next = <<>>
    /\ \E e \in lost :
          /\ e[2] = Len(popped)
          /\ get_block_prev_id(e[1]) = get_block_prev_id(tree[head].block)

\* C24. Every pop_head on a non-empty forest lowers longest_chain_depth()
\* by exactly 1, whether it prunes sibling branches or not.
PopLowersDepthByOne ==
    [][(PopHeadStep /\ head # NoNode)
          => longest_chain_depth(head', tree') + 1
                = longest_chain_depth(head, tree)]_vars

PopLowersDepthByOneWitness ==
    /\ pc = "idle"
    /\ head # NoNode
    /\ longest_chain_depth(head, tree) >= 2
    /\ \E e \in lost : e[2] = Len(popped)

\* C25. Orphan case frame: a call of insert on a block whose parent id is
\* not in nodes, the genesis case apart, changes the orphan map only: head,
\* nodes, the edges of the forest and longest_chain_depth() stay, and the
\* number of orphans grows by 1 when no orphan waited on that parent.
OrphanCaseFrame ==
    [][OrphanCase
          => /\ UNCHANGED <<head, nodes, tree, made>>
             /\ longest_chain_depth(head', tree') = longest_chain_depth(head, tree)
             /\ pc' = "idle"
             /\ get_block_prev_id(cur) \notin DOMAIN orphans
                   => orphans_len(orphans') = orphans_len(orphans) + 1]_vars

OrphanCaseFrameWitness ==
    /\ pc = "idle"
    /\ arg \in Range(orphans)
    /\ orphans_len(orphans) >= 2
    /\ head # NoNode
    /\ longest_chain_depth(head, tree) >= 2

\* C26 as claimed. Pruning is irreversible: a block id that sat only in the
\* sibling subtrees pruned by a pop_head is returned by no later pop_head,
\* is not in nodes again, and no block whose prev_id it is sits in the
\* forest afterwards.
PrunedNotReturned(e) ==
    \A j \in Popped : j > e[2] => popped[j].id # e[1]

PrunedNotInNodes(e) == e[1] \notin DOMAIN nodes

PrunedParentNotAttached(e) ==
    \A n \in InForest : get_block_prev_id(tree[n].block) # e[1]

PruningIrreversible ==
    \A e \in lost :
        /\ PrunedNotReturned(e)
        /\ PrunedNotInNodes(e)
        /\ PrunedParentNotAttached(e)

\* C26 as amended. The same, for as long as no pop_head after the pruning
\* has removed the last node of the forest.
EmptiedSince(k) == \E i \in Popped : i > k /\ popped[i].last

EmptiedBefore(k, j) == \E i \in Popped : k < i /\ i < j /\ popped[i].last

PruningIrreversibleWhileNonEmpty ==
    \A e \in lost :
        /\ \A j \in Popped :
              (j > e[2] /\ popped[j].id = e[1]) => EmptiedBefore(e[2], j)
        /\ ~PrunedNotInNodes(e) => EmptiedSince(e[2])
        /\ ~PrunedParentNotAttached(e) => EmptiedSince(e[2])

PruningIrreversibleWitness ==
    /\ pc = "idle"
    /\ head # NoNode
    /\ \E e \in lost :
          /\ \E b \in Range(orphans) : get_block_prev_id(b) = e[1]
          /\ made[e[1]] >= 1
          /\ ~EmptiedSince(e[2])

\* C27. file_cb ordering: file_cb is called for the file being read, after
\* the insert of its last record has returned and with the file at its end;
\* a record is inserted only when file_cb has been called for every file
\* opened before the one it comes from.  Blocks of the file may then still
\* wait in the forest.
FileCbStep == cbs' # cbs

InsertsRecord == delivered' # delivered

FileCbOrdering ==
    /\ [][FileCbStep
             => /\ pc = "check"
                /\ cur = NoBlock
                /\ pc' = "read"
                /\ Len(cbs') = Len(cbs) + 1
                /\ cbs'[Len(cbs')].file = nfiles
                /\ cbs'[Len(cbs')].last \in delivered
                /\ nfiles \in consumed'
                /\ UNCHANGED <<delivered, nfiles, chainVars>>]_vars
    /\ [][InsertsRecord
             => \A f \in 1..(nfiles - 1) : CallsFor(f) # {}]_vars

FileCbOrderingWitness ==
    /\ Len(cbs) >= 1
    /\ nfiles = 2
    /\ pc = "insert"
    /\ head # NoNode
    /\ emitted = <<>>
    /\ cbs[1].last \in DOMAIN nodes

\* C28. Record locator: the offset stored in a record is the position of its
\* magic in its file: 0 for the first record of the file, and for every
\* other record the offset of the record before it plus 8 plus the size of
\* the record before it.
RecordLocator ==
    \A i \in 1..Len(located) :
        /\ located[i].nth = 1 => located[i].offset = 0
        /\ located[i].nth > 1 =>
              /\ i > 1 => located[i].offset
                             = located[i - 1].offset + FrameLen + located[i - 1].size
              /\ located[i].offset >= (located[i].nth - 1) * (FrameLen + HeaderLen)
        /\ i > 1 => located[i].nth = located[i - 1].nth + 1
        /\ located[i].blk_index = nfiles

RecordLocatorWitness ==
    /\ nfiles = 2
    /\ Len(located) = 2
    /\ located[2].nth >= 3
    /\ located[1].size # located[2].size

\* C29. Truncated record: a file that ends inside a frame makes read()
\* return an error value; the reader does not panic, and the cut record is
\* not inserted.
TruncatedRecord ==
    why = "truncated" => (pc = "done" /\ result = "Err")

\* C30 as claimed. Residue at end of input: when read() returns because the
\* input is exhausted, with no stop flag and no cap reached, at most 9
\* blocks are left in the forest.
Exhausted ==
    /\ pc = "done"
    /\ why = "exhausted"
    /\ ~stop_flag
    /\ ~CapObserved

ResidueAtMostNineBlocks ==
    Exhausted => Cardinality(Reachable) <= CONFIRMATION_DEPTH - 1

\* C30 as amended. The longest path from head then holds at most 9 blocks.
ResidueAtMostNineDeep ==
    Exhausted =>
        (head # NoNode => PathDepth(tree, head) <= CONFIRMATION_DEPTH - 1)

ResidueAtMostNineDeepWitness ==
    /\ Exhausted
    /\ Len(emitted) >= 1
    /\ head # NoNode
    /\ PathDepth(tree, head) = CONFIRMATION_DEPTH - 1
    /\ Cardinality(Reachable) >= CONFIRMATION_DEPTH

\* C31. Memory bound: at every point of a read() with max_orphans = Some(k)
\* the number of blocks the assembler holds, the nodes of the forest plus
\* the orphans, is at most k + longest_chain_depth(), also while competing
\* fork branches are present below head.
Held == Cardinality(Reachable) + orphans_len(orphans)

MemoryBound ==
    max_orphans # None =>
        Held <= max_orphans[1] + longest_chain_depth(head, tree)

\* C32. Emitted blocks form one linked chain: the block emitted at height 0
\* has prev_id equal to the genesis identifier, and the block emitted at
\* height h + 1 has prev_id equal to the id of the block emitted at height
\* h, for any order of delivery and any forks.
EmittedLinkedChain ==
    /\ emitted # <<>> => get_block_prev_id(emitted[1].id) = ZERO
    /\ \A i \in Emitted :
          i > 1 => get_block_prev_id(emitted[i].id) = emitted[i - 1].id

\* two blocks were emitted, a fork branch was pruned on the way and a record
\* came before its parent
EmittedLinkedChainWitness ==
    /\ Len(emitted) >= 2
    /\ pruned # {}
    /\ orphans_len(orphans) >= 1

\* C33. insert never replaces an existing head: while head is present no
\* call of insert changes which node is head (pop_head alone does); a block
\* whose prev_id is the genesis identifier and that arrives while head is
\* present is queued in orphans under the genesis identifier, no node is
\* made of it, and while the forest stays non-empty it stays queued there.
InsertCall == pc = "insert"

GenesisParentArrives ==
    /\ InsertCall
    /\ head # NoNode
    /\ get_block_prev_id(cur) = ZERO

QueuedUnderGenesis ==
    /\ orphans' = MapPut(orphans, ZERO, cur)
    /\ made' = made
    /\ nodes' = nodes
    /\ tree' = tree
    /\ pc' # "insert"

HeadKeptByInsert ==
    [][/\ (InsertCall /\ head # NoNode) => head' = head
       /\ GenesisParentArrives => QueuedUnderGenesis
       /\ (ZERO \in DOMAIN orphans /\ head # NoNode /\ head' # NoNode)
             => /\ ZERO \in DOMAIN orphans'
                /\ get_block_prev_id(orphans'[ZERO]) = ZERO
                /\ made'[orphans'[ZERO]] = made[orphans'[ZERO]]]_vars

\* a block with the genesis identifier as parent waits in orphans while a
\* head is present, and pop_head has moved the head since the first insert
HeadKeptByInsertWitness ==
    /\ pc = "idle"
    /\ head # NoNode
    /\ Len(popped) >= 1
    /\ ZERO \in DOMAIN orphans
    /\ get_block_prev_id(orphans[ZERO]) = ZERO

\* C34. A block that arrives after its parent has been emitted is queued as
\* an orphan and stays in orphans for the rest of the run: it is never
\* attached or emitted, and it keeps counting toward the number of orphans
\* and the max_orphans cap.
LateOrphanStays ==
    \A b \in late :
        /\ get_block_prev_id(b) \in DOMAIN orphans
        /\ orphans[get_block_prev_id(b)] = b
        /\ get_block_prev_id(b) \notin DOMAIN nodes

\* C34, as the code has it: a block that arrives after its parent has been
\* emitted takes the orphan case and no node is made of it; from then on
\* the id of its parent is never in nodes and is a key of orphans, which
\* counts toward the cap, and the block under that key is the last one that
\* arrived late with this parent: a later one takes the place of the block.
LateArrival ==
    /\ pc = "insert"
    /\ get_block_prev_id(cur) \in emitted_ids(emitted)

LateQueued ==
    /\ orphans' = MapPut(orphans, get_block_prev_id(cur), cur)
    /\ made' = made
    /\ nodes' = nodes
    /\ head' = head
    /\ pc' # "insert"

LateKeyKept(b) ==
    LET k == get_block_prev_id(b)
    IN /\ k \in DOMAIN orphans
       /\ k \notin DOMAIN nodes
       /\ orphans[k] \in late
       /\ get_block_prev_id(orphans[k]) = k

LateOrphanKeyStays ==
    [][/\ LateArrival => LateQueued
       /\ \A b \in late' : LateKeyKept(b)']_vars

\* a block that arrived late was replaced by a later one, under a cap
LateOrphanKeyStaysWitness ==
    /\ max_orphans # None
    /\ \E b \in late :
          /\ get_block_prev_id(b) \in DOMAIN orphans
          /\ orphans[get_block_prev_id(b)] # b
====
